---- MODULE Spec2Model ----
(***************************************************************************)
(* A model of apprise/config/ConfigHTTP.py: the ConfigHTTP object, its     *)
(* read() method stepped through its network I/O, and the url() /          *)
(* parse_url() codec.                                                      *)
(*                                                                         *)
(* Python values: an optional value is None (<<>>) or Some(x) (<<x>>);     *)
(* a str is a sequence of one-character strings where its characters       *)
(* matter (Content-Type) and a TLA+ string where only its identity does;   *)
(* a bytes object is known by its length; a header value that Python       *)
(* compares with an int keeps its type tag (str or int).                   *)
(***************************************************************************)
EXTENDS Integers, Sequences, FiniteSets, TLC

\* ---------------------------------------------------------------- bounds
\* number of independent callers that may be inside read() at once
NumThreads == 2

\* ---------------------------------------------------------- Python values
None == <<>>
Some(x) == <<x>>

Min(a, b) == IF a < b THEN a ELSE b

\* a bytes object of n bytes
Bytes(n) == [tag |-> "bytes", len |-> n]
\* b[lo:hi] for 0 <= lo
Slice(b, lo, hi) ==
    [tag |-> "bytes",
     len |-> IF Min(b.len, hi) > lo THEN Min(b.len, hi) - lo ELSE 0]

\* the int n, and the str holding the decimal digits of n
PyInt(n) == [tag |-> "int", v |-> n]
PyNumStr(n) == [tag |-> "str", v |-> n]

\* d.update(e) on dicts modelled as functions
DictUpdate(d, e) ==
    [k \in (DOMAIN d) \cup (DOMAIN e) |-> IF k \in DOMAIN e THEN e[k] ELSE d[k]]

EmptyDict == [k \in {} |-> ""]

\* ------------------------------------------------------- class constants
connection_timeout_sec == 5
max_error_buffer_size == 2048
\* requests.codes.ok
codes_ok == 200

\* ConfigFormat members
YAML == "yaml"
TEXT == "text"

\* ------------------------------------------------------------- regexes
LowerOf ==
    [c \in {"A", "E", "H", "I", "L", "M", "N", "P", "T", "X", "Y"} |->
        CASE c = "A" -> "a" [] c = "E" -> "e" [] c = "H" -> "h"
          [] c = "I" -> "i" [] c = "L" -> "l" [] c = "M" -> "m"
          [] c = "N" -> "n" [] c = "P" -> "p" [] c = "T" -> "t"
          [] c = "X" -> "x" [] c = "Y" -> "y"]

\* re.I: compare characters without regard to case
Lower(s) == [i \in 1..Len(s) |-> IF s[i] \in DOMAIN LowerOf THEN LowerOf[s[i]] ELSE s[i]]

\* re.match anchors at the start of the string only
StartsWith(s, p) == Len(s) >= Len(p) /\ SubSeq(s, 1, Len(p)) = p

s_text == <<"t", "e", "x", "t">>
s_application == <<"a", "p", "p", "l", "i", "c", "a", "t", "i", "o", "n">>
s_yaml == <<"y", "a", "m", "l">>
s_plain == <<"p", "l", "a", "i", "n">>
s_html == <<"h", "t", "m", "l">>

\* MIME_IS_YAML with a slip: the pattern is compiled without re.I
MIME_IS_YAML_CaseSensitive(s) ==
    \E a \in {s_text, s_application} : \E x \in {<<>>, <<"x", "-">>} :
        StartsWith(s, a \o <<"/">> \o x \o s_yaml)

\* MIME_IS_YAML.match(s) is not None
MIME_IS_YAML(s) ==
    \E a \in {s_text, s_application} : \E x \in {<<>>, <<"x", "-">>} :
        StartsWith(Lower(s), a \o <<"/">> \o x \o s_yaml)

\* MIME_IS_TEXT.match(s) is not None
MIME_IS_TEXT(s) ==
    \E a \in {s_plain, s_html} : StartsWith(Lower(s), s_text \o <<"/">> \o a)


\* ------------------------------------------------- http status reasons
\* ConfigBase.http_response_code_lookup: a known code gives its reason, an
\* unknown code gives the empty reason and never an error
http_response_code_lookup(code) ==
    CASE code = 204 -> "No content."
      [] code = 404 -> "Page not found."
      [] OTHER -> ""

\* ------------------------------------------------------ the interpreter
\* a > b as Python evaluates it.  Two ints compare by value.  A str against
\* an int raises TypeError on Python 3 and is always greater on Python 2
\* (numbers order before every other type).
PyGreater(a, b, major) ==
    IF a.tag = "int" /\ b.tag = "int"
    THEN [raised |-> "", value |-> a.v > b.v]
    ELSE IF major = 3
         THEN [raised |-> "TypeError", value |-> FALSE]
         ELSE [raised |-> "", value |-> (a.tag = "str")]

\* '%d' % n for the ports of the model
FormatInt ==
    [n \in {80, 443, 8080} |->
        CASE n = 80 -> "80" [] n = 443 -> "443" [] n = 8080 -> "8080"]

\* ------------------------------------------------------------ the state
VARIABLES
    self,       \* the ConfigHTTP object's attributes
    py,         \* major version of the interpreter running the code (2 or 3)
    callers,    \* the threads that call read() on the object
    answers,    \* which server self.host is: one of "all" answers or of "few"
    classified, \* last Content-Type value classified, with its format
    pc,         \* pc[t]: where thread t is inside read()
    request,    \* request[t]: url, headers and auth prepared by the call
    r,          \* r[t]: read()'s local r, None or Some(connection handle)
    response,   \* response[t]: read()'s local response
    ret,        \* ret[t]: how the call ended (returned value or raised error)
    throttled,  \* throttled[t]: throttle() invocations of the current call
    posted,     \* posted[t]: requests.post invocations of the current call
    log,        \* log[t]: what the current call handed to self.logger
    conn,       \* conn[h]: the Response/connection opened by thread h's call
    urlOut,     \* last value returned by url()
    parsed      \* last value returned by parse_url()

vars == <<self, py, callers, answers, classified, pc, request, r, response,
          ret, throttled, posted, log, conn, urlOut, parsed>>

readVars == <<pc, request, r, response, ret, throttled, posted, log, conn>>

Threads == 1..NumThreads

\* --------------------------------------------------------- constructor
Hosts == {"localhost"}
Ports == {None, Some(80), Some(443), Some(8080)}
\* fullpath keyword: a str, or absent / not a str
Paths == {None, Some("/"), Some("/cfg")}
Users == {None, Some("u")}
Passwords == {None, Some("p")}
HeaderSets == {EmptyDict, [k \in {"X-A"} |-> "1"],
               [k \in {"X-A", "User-Agent"} |-> IF k = "X-A" THEN "2" ELSE "ua"]}
Formats == {None, Some(YAML), Some(TEXT)}
BufferSizes == {0, 1024}

\* ConfigHTTP.__init__(headers, **kwargs); kw holds the keyword arguments
\* and what ConfigBase.__init__ stores from them
ConfigHTTP_init(kw) ==
    [secure |-> kw.secure,
     schema |-> IF kw.secure THEN "https" ELSE "http",
     host |-> kw.host,
     port |-> kw.port,
     user |-> kw.user,
     password |-> kw.password,
     fullpath |-> IF kw.fullpath = None THEN "/" ELSE kw.fullpath[1],
     headers |-> DictUpdate(EmptyDict, kw.headers),
     config_format |-> kw.format,
     default_config_format |-> kw.default_format,
     encoding |-> "utf-8",
     verify_certificate |-> kw.verify,
     max_buffer_size |-> kw.max_buffer_size,
     app_id |-> "Apprise"]

\* --------------------------------------------------------- the server
Statuses == {200, 204, 404, 799}
DeclaredLengths == {1024, 2048}
BodySizes == {0, 2048, 5000}

ct_text_yaml == s_text \o <<"/">> \o s_yaml
ct_Text_X_YAML == <<"T", "e", "x", "t", "/", "X", "-", "Y", "A", "M", "L">>
ct_application_x_yaml == s_application \o <<"/", "x", "-">> \o s_yaml
ct_text_plain == s_text \o <<"/">> \o s_plain
ct_text_html_charset == s_text \o <<"/">> \o s_html \o <<";", " ", "c">>
ct_application_json == s_application \o <<"/", "j", "s", "o", "n">>
ct_xtext_yaml == <<"x">> \o ct_text_yaml
ct_empty == <<>>

ContentTypes == {ct_text_yaml, ct_Text_X_YAML, ct_application_x_yaml,
                 ct_text_plain, ct_text_html_charset, ct_application_json,
                 ct_xtext_yaml, ct_empty}

\* the response headers a server may send: Content-Length absent, a str
\* (what the wire gives) or an int (what a test double gives); Content-Type
\* absent or any of the sample values
ResponseHeaders ==
    LET cl == {EmptyDict}
              \cup {[k \in {"Content-Length"} |-> PyNumStr(n)] : n \in DeclaredLengths}
              \cup {[k \in {"Content-Length"} |-> PyInt(n)] : n \in DeclaredLengths}
        ct == {EmptyDict} \cup {[k \in {"Content-Type"} |-> c] : c \in ContentTypes}
    IN  {DictUpdate(a, b) : a \in cl, b \in ct}

\* what the server answers to one request: status line, headers, the body it
\* will stream, and whether the stream breaks while the body is being read
ServerAnswers ==
    [status_code : Statuses, headers : ResponseHeaders,
     body : {Bytes(n) : n \in BodySizes}, breaks : BOOLEAN]

\* a server with a short list of answers: a 404, a declared oversize, a body
\* typed text/yaml, and a stream that breaks
ConcAnswers ==
    {[status_code |-> 404, headers |-> EmptyDict, body |-> Bytes(2048),
      breaks |-> FALSE],
     [status_code |-> 200, headers |-> [k \in {"Content-Length"} |-> PyInt(2048)],
      body |-> Bytes(5000), breaks |-> FALSE],
     [status_code |-> 200,
      headers |-> DictUpdate([k \in {"Content-Length"} |-> PyInt(1024)],
                             [k \in {"Content-Type"} |-> ct_text_yaml]),
      body |-> Bytes(2048), breaks |-> FALSE],
     [status_code |-> 200, headers |-> [k \in {"Content-Length"} |-> PyInt(1024)],
      body |-> Bytes(0), breaks |-> TRUE]}

\* the answers the server in use may give: all of them, or the short list
Answers == IF answers = "few" THEN ConcAnswers ELSE ServerAnswers

\* slot h of the connection table when thread h has no Response object
NoConn ==
    [live |-> FALSE, owner |-> 0, status_code |-> 0, headers |-> EmptyDict,
     body |-> Bytes(0), breaks |-> FALSE,
     closes |-> 0, reads |-> 0, bytesRead |-> 0, readAfterClose |-> FALSE]

\* the Response object requests.post returns to thread t for answer a
NewConn(t, a) ==
    [live |-> TRUE, owner |-> t, status_code |-> a.status_code,
     headers |-> a.headers, body |-> a.body, breaks |-> a.breaks,
     closes |-> 0, reads |-> 0, bytesRead |-> 0, readAfterClose |-> FALSE]

\* r.close()
Close(c) == [c EXCEPT !.closes = @ + 1]

\* r.content: pulls the whole remaining body off the connection, or as much
\* as arrives before the stream breaks
Content(c) ==
    [c EXCEPT !.reads = @ + 1,
              !.bytesRead = IF c.breaks THEN c.body.len \div 2 ELSE c.body.len,
              !.readAfterClose = @ \/ (c.closes > 0)]

\* ------------------------------------------------------------- results
Pending == [kind |-> "pending", value |-> None, exc |-> ""]
Return(v) == [kind |-> "return", value |-> v, exc |-> ""]
Raise(e) == [kind |-> "raise", value |-> None, exc |-> e]

LogEntry(level, what, code, text, n) ==
    [level |-> level, what |-> what, code |-> code, text |-> text, bytes |-> n]

NoRequest ==
    [url |-> <<>>, headers |-> EmptyDict, auth |-> None, verify |-> FALSE,
     timeout |-> 0, stream |-> FALSE]

\* ----------------------------------------------------------------- read
\* read(), lines 141-167: compose headers, auth and url, log the url, and
\* set the locals response and r to None.  A thread enters when it is not
\* inside a call; the Response object of its previous call is dropped.
ReadPrepare(t) ==
    /\ t \in callers
    /\ pc[t] \in {"idle", "done"}
    /\ LET headers == DictUpdate([k \in {"User-Agent"} |-> self.app_id], self.headers)
           auth == IF self.user # None
                   THEN Some(<<self.user, self.password>>) ELSE None
           url == <<self.schema, "://", self.host>>
                  \o (IF self.port # None THEN <<":", FormatInt[self.port[1]]>> ELSE <<>>)
                  \o <<self.fullpath>>
       IN  /\ request' = [request EXCEPT ![t] =
                  [url |-> url, headers |-> headers, auth |-> auth,
                   verify |-> self.verify_certificate,
                   timeout |-> connection_timeout_sec, stream |-> TRUE]]
           /\ log' = [log EXCEPT ![t] = <<LogEntry("debug", "url", 0, "", 0)>>]
    /\ response' = [response EXCEPT ![t] = None]
    /\ r' = [r EXCEPT ![t] = None]
    /\ ret' = [ret EXCEPT ![t] = Pending]
    /\ throttled' = [throttled EXCEPT ![t] = 0]
    /\ posted' = [posted EXCEPT ![t] = 0]
    /\ conn' = [conn EXCEPT ![t] = NoConn]
    /\ pc' = [pc EXCEPT ![t] = "throttle"]
    /\ UNCHANGED <<self, py, callers, answers, classified, urlOut, parsed>>

\* line 170: self.throttle()
ReadThrottle(t) ==
    /\ pc[t] = "throttle"
    /\ throttled' = [throttled EXCEPT ![t] = @ + 1]
    /\ pc' = [pc EXCEPT ![t] = "post"]
    /\ UNCHANGED <<self, py, callers, answers, classified,
                   request, r, response, ret, posted, log,
                   conn, urlOut, parsed>>

\* ReadPost with a slip: the Response is kept where every call of the object
\* sees it (as an attribute of self) instead of in a local of the call
ReadPost_SharedHandle(t) ==
    /\ pc[t] = "post"
    /\ posted' = [posted EXCEPT ![t] = @ + 1]
    /\ \/ \E a \in Answers :
            /\ conn' = [conn EXCEPT ![t] = NewConn(t, a)]
            /\ r' = [u \in Threads |-> Some(t)]
            /\ pc' = [pc EXCEPT ![t] = "status"]
            /\ UNCHANGED <<ret, log>>
       \/ /\ log' = [log EXCEPT ![t] =
                  @ \o <<LogEntry("warning", "connection", 0, "", 0),
                         LogEntry("debug", "exception", 0, "RequestException", 0)>>]
          /\ ret' = [ret EXCEPT ![t] = Return(None)]
          /\ pc' = [pc EXCEPT ![t] = "done"]
          /\ UNCHANGED <<conn, r>>
    /\ UNCHANGED <<self, py, callers, answers, classified,
                   request, response, throttled, urlOut, parsed>>

\* ReadPost with a slip: a failed request is issued a second time
ReadPost_Retries(t) ==
    /\ pc[t] = "post"
    /\ posted' = [posted EXCEPT ![t] = @ + 1]
    /\ \/ \E a \in Answers :
            /\ conn' = [conn EXCEPT ![t] = NewConn(t, a)]
            /\ r' = [r EXCEPT ![t] = Some(t)]
            /\ pc' = [pc EXCEPT ![t] = "status"]
            /\ UNCHANGED <<ret, log>>
       \/ /\ log' = [log EXCEPT ![t] =
                  @ \o <<LogEntry("warning", "connection", 0, "", 0),
                         LogEntry("debug", "exception", 0, "RequestException", 0)>>]
          /\ IF posted[t] = 0
             THEN UNCHANGED <<ret, pc>>
             ELSE /\ ret' = [ret EXCEPT ![t] = Return(None)]
                  /\ pc' = [pc EXCEPT ![t] = "done"]
          /\ UNCHANGED <<conn, r>>
    /\ UNCHANGED <<self, py, callers, answers, classified,
                   request, response, throttled, urlOut, parsed>>

\* lines 174-181 and 248-255: requests.post either returns a Response, bound
\* to r, or raises a RequestException, which the handler turns into None
ReadPost(t) ==
    /\ pc[t] = "post"
    /\ posted' = [posted EXCEPT ![t] = @ + 1]
    /\ \/ \E a \in Answers :
            /\ conn' = [conn EXCEPT ![t] = NewConn(t, a)]
            /\ r' = [r EXCEPT ![t] = Some(t)]
            /\ pc' = [pc EXCEPT ![t] = "status"]
            /\ UNCHANGED <<ret, log>>
       \/ /\ log' = [log EXCEPT ![t] =
                  @ \o <<LogEntry("warning", "connection", 0, "", 0),
                         LogEntry("debug", "exception", 0, "RequestException", 0)>>]
          /\ ret' = [ret EXCEPT ![t] = Return(None)]
          /\ pc' = [pc EXCEPT ![t] = "done"]
          /\ UNCHANGED <<conn, r>>
    /\ UNCHANGED <<self, py, callers, answers, classified,
                   request, response, throttled, urlOut, parsed>>

\* lines 183-199 and 248-255: a status other than requests.codes.ok is
\* logged with its reason, then r.content[0:max_error_buffer_size] is logged;
\* r.content may raise, and the handler then returns None
ReadStatusError(t) ==
    /\ pc[t] = "status"
    /\ LET h == r[t][1]
           status_str == http_response_code_lookup(conn[h].status_code)
           error == LogEntry("error", "status", conn[h].status_code, status_str, 0)
       IN  /\ conn[h].status_code # codes_ok
           /\ IF max_error_buffer_size > 0
              THEN /\ conn' = [conn EXCEPT ![h] = Content(@)]
                   /\ IF conn[h].breaks
                      THEN /\ log' = [log EXCEPT ![t] =
                                  @ \o <<error,
                                         LogEntry("warning", "connection", 0, "", 0),
                                         LogEntry("debug", "exception", 0, "RequestException", 0)>>]
                           /\ ret' = [ret EXCEPT ![t] = Return(None)]
                           /\ pc' = [pc EXCEPT ![t] = "done"]
                      ELSE /\ log' = [log EXCEPT ![t] =
                                  @ \o <<error,
                                         LogEntry("debug", "details", 0, "",
                                             Slice(conn[h].body, 0, max_error_buffer_size).len)>>]
                           /\ pc' = [pc EXCEPT ![t] = "close_error"]
                           /\ UNCHANGED ret
              ELSE /\ log' = [log EXCEPT ![t] = @ \o <<error>>]
                   /\ pc' = [pc EXCEPT ![t] = "close_error"]
                   /\ UNCHANGED <<conn, ret>>
    /\ UNCHANGED <<self, py, callers, answers, classified,
                   request, r, response, throttled, posted,
                   urlOut, parsed>>

\* ReadStatusClose with a slip: the echoed part of the body is returned
ReadStatusClose_ReturnsEcho(t) ==
    /\ pc[t] = "close_error"
    /\ conn' = [conn EXCEPT ![r[t][1]] = Close(@)]
    /\ ret' = [ret EXCEPT ![t] =
           Return(Some(Slice(conn[r[t][1]].body, 0, max_error_buffer_size)))]
    /\ pc' = [pc EXCEPT ![t] = "done"]
    /\ UNCHANGED <<self, py, callers, answers, classified,
                   request, r, response, throttled, posted,
                   log, urlOut, parsed>>

\* lines 204-207: r.close(); return None
ReadStatusClose(t) ==
    /\ pc[t] = "close_error"
    /\ conn' = [conn EXCEPT ![r[t][1]] = Close(@)]
    /\ ret' = [ret EXCEPT ![t] = Return(None)]
    /\ pc' = [pc EXCEPT ![t] = "done"]
    /\ UNCHANGED <<self, py, callers, answers, classified,
                   request, r, response, throttled, posted,
                   log, urlOut, parsed>>

\* outcome of the condition of lines 210-211,
\*   self.max_buffer_size > 0 and r.headers['Content-Length'] > self.max_buffer_size
\* 'and' short-circuits; indexing an absent header raises KeyError
ExceedsBuffer(max_buffer_size, headers, major) ==
    IF ~(max_buffer_size > 0)
    THEN [raised |-> "", value |-> FALSE]
    ELSE IF "Content-Length" \notin DOMAIN headers
         THEN [raised |-> "KeyError", value |-> FALSE]
         ELSE PyGreater(headers["Content-Length"], PyInt(max_buffer_size), major)

\* lines 209-216: on the success status, test the declared length; an
\* exception of the test is no RequestException and leaves read()
ReadCheckLength(t) ==
    /\ pc[t] = "status"
    /\ LET h == r[t][1]
           c == ExceedsBuffer(self.max_buffer_size, conn[h].headers, py)
       IN  /\ conn[h].status_code = codes_ok
           /\ IF c.raised # ""
              THEN /\ ret' = [ret EXCEPT ![t] = Raise(c.raised)]
                   /\ pc' = [pc EXCEPT ![t] = "done"]
                   /\ UNCHANGED log
              ELSE IF c.value
                   THEN /\ log' = [log EXCEPT ![t] =
                               @ \o <<LogEntry("error", "exceeds", 0, "",
                                               self.max_buffer_size \div 1024)>>]
                        /\ pc' = [pc EXCEPT ![t] = "close_exceeds"]
                        /\ UNCHANGED ret
                   ELSE /\ pc' = [pc EXCEPT ![t] = "content"]
                        /\ UNCHANGED <<ret, log>>
    /\ UNCHANGED <<self, py, callers, answers, classified,
                   request, r, response, throttled, posted,
                   conn, urlOut, parsed>>

\* lines 221-224: r.close(); return None
ReadExceedsClose(t) ==
    /\ pc[t] = "close_exceeds"
    /\ conn' = [conn EXCEPT ![r[t][1]] = Close(@)]
    /\ ret' = [ret EXCEPT ![t] = Return(None)]
    /\ pc' = [pc EXCEPT ![t] = "done"]
    /\ UNCHANGED <<self, py, callers, answers, classified,
                   request, r, response, throttled, posted,
                   log, urlOut, parsed>>

s_octet_stream == s_application \o <<"/", "o", "c", "t", "e", "t", "-", "s", "t", "r", "e", "a", "m">>

\* DetectFormat with a slip: the enforced format is not looked at
DetectFormat_IgnoresOverride(config_format, default_config_format, headers) ==
    LET content_type == IF "Content-Type" \in DOMAIN headers
                        THEN headers["Content-Type"] ELSE s_octet_stream
    IN  IF content_type # <<>>
        THEN IF MIME_IS_YAML(content_type) THEN YAML
             ELSE IF MIME_IS_TEXT(content_type) THEN TEXT
             ELSE default_config_format
        ELSE default_config_format

\* lines 232-246: the default format after a body was stored
DetectFormat(config_format, default_config_format, headers) ==
    LET content_type == IF "Content-Type" \in DOMAIN headers
                        THEN headers["Content-Type"] ELSE s_octet_stream
    IN  IF config_format = None /\ content_type # <<>>
        THEN IF MIME_IS_YAML(content_type) THEN YAML
             ELSE IF MIME_IS_TEXT(content_type) THEN TEXT
             ELSE default_config_format
        ELSE default_config_format

\* ReadContent with a slip: the format is detected from the headers before
\* the body is read, so also when the read then fails
ReadContent_DetectsBeforeRead(t) ==
    /\ pc[t] = "content"
    /\ LET h == r[t][1]
       IN  /\ conn' = [conn EXCEPT ![h] = Content(@)]
           /\ self' = [self EXCEPT !.default_config_format =
                  DetectFormat(self.config_format, @, conn[h].headers)]
           /\ IF conn[h].breaks
              THEN /\ log' = [log EXCEPT ![t] =
                          @ \o <<LogEntry("warning", "connection", 0, "", 0),
                                 LogEntry("debug", "exception", 0, "RequestException", 0)>>]
                   /\ ret' = [ret EXCEPT ![t] = Return(None)]
                   /\ pc' = [pc EXCEPT ![t] = "done"]
                   /\ UNCHANGED response
              ELSE /\ response' = [response EXCEPT ![t] = Some(conn[h].body)]
                   /\ pc' = [pc EXCEPT ![t] = "close"]
                   /\ UNCHANGED <<ret, log>>
    /\ UNCHANGED <<py, callers, answers, classified, request, r, throttled,
                   posted, urlOut, parsed>>

\* lines 226-255: response = r.content, then the format detection; r.content
\* may raise, and the handler then returns None
ReadContent(t) ==
    /\ pc[t] = "content"
    /\ LET h == r[t][1]
       IN  /\ conn' = [conn EXCEPT ![h] = Content(@)]
           /\ IF conn[h].breaks
              THEN /\ log' = [log EXCEPT ![t] =
                          @ \o <<LogEntry("warning", "connection", 0, "", 0),
                                 LogEntry("debug", "exception", 0, "RequestException", 0)>>]
                   /\ ret' = [ret EXCEPT ![t] = Return(None)]
                   /\ pc' = [pc EXCEPT ![t] = "done"]
                   /\ UNCHANGED <<response, self>>
              ELSE /\ response' = [response EXCEPT ![t] = Some(conn[h].body)]
                   /\ self' = [self EXCEPT !.default_config_format =
                          DetectFormat(self.config_format, @, conn[h].headers)]
                   /\ pc' = [pc EXCEPT ![t] = "close"]
                   /\ UNCHANGED <<ret, log>>
    /\ UNCHANGED <<py, callers, answers, classified, request, r, throttled, posted, urlOut, parsed>>

\* ReadClose with a slip: the body is taken from the Response after it was
\* closed
ReadClose_ReadsAfterClose(t) ==
    /\ pc[t] = "close"
    /\ conn' = [conn EXCEPT ![r[t][1]] = Content(Close(@))]
    /\ ret' = [ret EXCEPT ![t] = Return(Some(conn[r[t][1]].body))]
    /\ pc' = [pc EXCEPT ![t] = "done"]
    /\ UNCHANGED <<self, py, callers, answers, classified,
                   request, r, response, throttled, posted,
                   log, urlOut, parsed>>

\* lines 257-263: r.close(); return response
ReadClose(t) ==
    /\ pc[t] = "close"
    /\ conn' = [conn EXCEPT ![r[t][1]] = Close(@)]
    /\ ret' = [ret EXCEPT ![t] = Return(response[t])]
    /\ pc' = [pc EXCEPT ![t] = "done"]
    /\ UNCHANGED <<self, py, callers, answers, classified,
                   request, r, response, throttled, posted,
                   log, urlOut, parsed>>

Read(t) ==
    \/ ReadPrepare(t)
    \/ ReadThrottle(t)
    \/ ReadPost(t)
    \/ ReadStatusError(t)
    \/ ReadStatusClose(t)
    \/ ReadCheckLength(t)
    \/ ReadExceedsClose(t)
    \/ ReadContent(t)
    \/ ReadClose(t)

\* ----------------------------------------------------- format classifier
\* lines 235-243: the format a Content-Type value stands for; YAML is tested
\* first, TEXT second, and None says that neither pattern matched
Classify(content_type) ==
    IF MIME_IS_YAML(content_type) THEN Some(YAML)
    ELSE IF MIME_IS_TEXT(content_type) THEN Some(TEXT)
    ELSE None

\* Content-Type values to classify, built from a lead, a type, a separator,
\* a subtype and a tail
MimeLeads == {<<>>, <<"x">>}
MimeTypes == {s_text, <<"T", "E", "X", "T">>, <<"T", "e", "x", "t">>,
              s_application, <<"A", "p", "p", "l", "i", "c", "a", "t", "i", "o", "n">>,
              <<"t", "e", "x">>, <<"i", "m", "a", "g", "e">>}
MimeSeparators == {<<"/">>, <<"-">>}
MimeSubtypes == {s_yaml, <<"Y", "A", "M", "L">>, <<"Y", "a", "m", "l">>,
                 <<"x", "-">> \o s_yaml, <<"X", "-", "Y", "A", "M", "L">>,
                 <<"x", "y", "a", "m", "l">>, <<"y", "a", "m">>, <<"x", "-">>,
                 s_plain, <<"P", "L", "A", "I", "N">>, <<"x", "-">> \o s_plain,
                 s_html, <<"H", "t", "m", "l">>, <<"h", "t", "m">>,
                 <<"j", "s", "o", "n">>, <<>>}
MimeTails == {<<>>, <<";">>, <<"x">>}

\* the values, each kept with its parts and not yet classified
MimeInputs ==
    {[lead |-> lead, type |-> type, sep |-> sep, sub |-> sub, tail |-> tail,
      value |-> lead \o type \o sep \o sub \o tail,
      classified |-> FALSE, format |-> None]
     : lead \in MimeLeads, type \in MimeTypes, sep \in MimeSeparators,
       sub \in MimeSubtypes, tail \in MimeTails}

\* the value at hand is classified
ClassifyCall ==
    /\ classified # None
    /\ ~classified[1].classified
    /\ classified' = Some([classified[1] EXCEPT
                              !.classified = TRUE,
                              !.format = Classify(classified[1].value)])
    /\ UNCHANGED <<self, py, callers, answers, urlOut, parsed>>
    /\ UNCHANGED readVars

\* ------------------------------------------------------------ url codec
\* A URL string is kept as its segments, in the order the format string of
\* url() lays them out: schema "://" auth hostname port path "?" args.
\* auth and port are token sequences (empty when the segment is missing),
\* args maps each query key, itself the token sequence of its sign and
\* name, to its value.

\* URLBase.quote(s, safe='') and its inverse, on the strings of the model
Quote ==
    [s \in {"u", "p", "a@b"} |-> IF s = "a@b" THEN "a%40b" ELSE s]
Unquote ==
    [s \in {"u", "p", "a%40b"} |-> IF s = "a%40b" THEN "a@b" ELSE s]

\* int(s) on the port strings of the model
ParseInt ==
    [s \in {"80", "443", "8080"} |->
        CASE s = "80" -> 80 [] s = "443" -> 443 [] s = "8080" -> 8080]

\* UrlPort with a slip: the default port does not follow the scheme
UrlPort_DefaultAlways80(secure, port) ==
    LET default_port == 80
    IN  IF port = None \/ port[1] = default_port
        THEN <<>> ELSE <<":", FormatInt[port[1]]>>

\* lines 125-132: the port segment of url()
UrlPort(secure, port) ==
    LET default_port == IF secure THEN 443 ELSE 80
    IN  IF port = None \/ port[1] = default_port
        THEN <<>> ELSE <<":", FormatInt[port[1]]>>

\* lines 113-123: the auth segment of url()
UrlAuth(user, password) ==
    IF user # None /\ password # None
    THEN <<Quote[user[1]], ":", Quote[password[1]], "@">>
    ELSE IF user # None THEN <<Quote[user[1]], "@">> ELSE <<>>

\* lines 101-111: the query arguments of url()
UrlArgs(o) ==
    LET enc == [k \in {<<"encoding">>} |-> o.encoding]
        fmt == IF o.config_format # None
               THEN DictUpdate(enc, [k \in {<<"format">>} |-> o.config_format[1]])
               ELSE enc
    IN  DictUpdate(fmt, [k \in {<<"+", h>> : h \in DOMAIN o.headers} |-> o.headers[k[2]]])

\* ConfigHTTP.url() on the object o
url(o) ==
    [schema |-> IF o.secure THEN "https" ELSE "http",
     auth |-> UrlAuth(o.user, o.password),
     hostname |-> o.host,
     port |-> UrlPort(o.secure, o.port),
     path |-> "/",
     args |-> UrlArgs(o)]

\* the query keys of args that carry the sign sg, stripped of it
Signed(args, sg) ==
    [h \in {k[2] : k \in {x \in DOMAIN args : Len(x) = 2 /\ x[1] = sg}} |->
        args[<<sg, h>>]]

\* ConfigBase.parse_url: the generic parse of a URL into schema, host, port,
\* user, password, fullpath, the query arguments split by leading sign into
\* qsd- and qsd+, and the format argument; None for a URL without a host
ConfigBase_parse_url(u) ==
    IF u.hostname = ""
    THEN None
    ELSE Some([schema |-> u.schema,
               host |-> u.hostname,
               port |-> IF u.port = <<>> THEN None ELSE Some(ParseInt[u.port[2]]),
               user |-> IF u.auth = <<>> THEN None ELSE Some(Unquote[u.auth[1]]),
               password |-> IF Len(u.auth) = 4 THEN Some(Unquote[u.auth[3]]) ELSE None,
               fullpath |-> u.path,
               format |-> IF <<"format">> \in DOMAIN u.args
                          THEN Some(u.args[<<"format">>]) ELSE None,
               encoding |-> IF <<"encoding">> \in DOMAIN u.args
                            THEN Some(u.args[<<"encoding">>]) ELSE None,
               qsd_minus |-> Signed(u.args, "-"),
               qsd_plus |-> Signed(u.args, "+"),
               headers |-> EmptyDict])

\* MergeHeaders with a slip: the overlay is applied the wrong way round
MergeHeaders_MinusWins(qsd_minus, qsd_plus) == DictUpdate(qsd_plus, qsd_minus)

\* lines 280-281: headers is the qsd- dict itself, updated in place by qsd+
MergeHeaders(qsd_minus, qsd_plus) == DictUpdate(qsd_minus, qsd_plus)

\* ConfigHTTP.parse_url(url), lines 265-283
parse_url(u) ==
    LET results == ConfigBase_parse_url(u)
    IN  IF results = None
        THEN results
        ELSE LET headers == MergeHeaders(results[1].qsd_minus, results[1].qsd_plus)
             IN  Some([results[1] EXCEPT !.headers = headers, !.qsd_minus = headers])

\* the objects the codec is exercised on
UrlObjects ==
    {ConfigHTTP_init(
        [secure |-> s, host |-> h, port |-> p, user |-> u, password |-> w,
         fullpath |-> f, headers |-> hs, format |-> fm, default_format |-> TEXT,
         verify |-> TRUE, max_buffer_size |-> 0])
     : s \in BOOLEAN, h \in Hosts, p \in Ports, u \in Users, w \in Passwords,
       f \in Paths, hs \in HeaderSets, fm \in Formats}

\* URL strings handed to parse_url besides the ones url() built: with
\* default (-) and override (+) headers, and without a host
SampleUrls ==
    {[schema |-> "http", auth |-> <<>>, hostname |-> h, port |-> <<>>,
      path |-> "/cfg", args |-> DictUpdate(m, q)]
     : h \in {"", "localhost"},
       m \in {EmptyDict, [k \in {<<"-", "X-A">>} |-> "1"],
              [k \in {<<"-", "X-A">>, <<"-", "X-C">>} |-> "1"]},
       q \in {EmptyDict, [k \in {<<"+", "X-A">>, <<"+", "X-B">>} |->
                             IF k[2] = "X-A" THEN "2" ELSE "3"]}}

\* a caller asks the object for its URL
Url ==
    /\ urlOut' = Some(url(self))
    /\ UNCHANGED <<self, py, callers, answers, classified, parsed>>
    /\ UNCHANGED readVars

\* a caller parses a URL: the one url() returned last, or a sample
ParseUrl ==
    /\ \E u \in {urlOut[i] : i \in DOMAIN urlOut} \cup SampleUrls :
          parsed' = Some([url |-> u, results |-> parse_url(u)])
    /\ UNCHANGED <<self, py, callers, answers, classified, urlOut>>
    /\ UNCHANGED readVars

\* ---------------------------------------------------------------- Spec
\* the objects read() is exercised on
ReadObjects ==
    {ConfigHTTP_init(
        [secure |-> FALSE, host |-> "localhost", port |-> Some(8080),
         user |-> Some("u"), password |-> Some("p"), fullpath |-> Some("/cfg"),
         headers |-> [k \in {"X-A"} |-> "1"], format |-> f,
         default_format |-> d, verify |-> TRUE, max_buffer_size |-> m])
     : f \in Formats, d \in {YAML, TEXT}, m \in BufferSizes}

InitCalls ==
    /\ pc = [t \in Threads |-> "idle"]
    /\ request = [t \in Threads |-> NoRequest]
    /\ r = [t \in Threads |-> None]
    /\ response = [t \in Threads |-> None]
    /\ ret = [t \in Threads |-> Pending]
    /\ throttled = [t \in Threads |-> 0]
    /\ posted = [t \in Threads |-> 0]
    /\ log = [t \in Threads |-> <<>>]
    /\ conn = [t \in Threads |-> NoConn]
    /\ urlOut = None
    /\ parsed = None

Init ==
    /\ self \in ReadObjects
    /\ py \in {2, 3}
    /\ callers = {1}
    /\ answers = "all"
    /\ classified = None
    /\ InitCalls

Next == \E t \in Threads : Read(t)

Spec == Init /\ [][Next]_vars

InitUrl ==
    /\ self \in UrlObjects
    /\ py \in {2, 3}
    /\ callers = {}
    /\ answers = "all"
    /\ classified = None
    /\ InitCalls

NextUrl == Url \/ ParseUrl

SpecUrl == InitUrl /\ [][NextUrl]_vars

\* ------------------------------------------------------------ SpecConc
\* every thread calls read() on one object, against the server of few answers
ConcObjects == {o \in ReadObjects : o.max_buffer_size = 1024 /\ o.config_format = None}

InitConc ==
    /\ self \in ConcObjects
    /\ py = 3
    /\ callers = Threads
    /\ answers = "few"
    /\ classified = None
    /\ InitCalls

SpecConc == InitConc /\ [][Next]_vars

\* -------------------------------------------------------- SpecClassify
InitClassify ==
    /\ self \in ConcObjects
    /\ py = 3
    /\ callers = {}
    /\ answers = "all"
    /\ classified \in {Some(m) : m \in MimeInputs}
    /\ InitCalls

NextClassify == ClassifyCall

SpecClassify == InitClassify /\ [][NextClassify]_vars

\* ------------------------------------------------------------ properties
\* thread t's call has ended and had obtained a connection handle
Ended(t) == pc[t] = "done"
Handle(t) == conn[r[t][1]]
EndedWithHandle(t) == Ended(t) /\ r[t] # None

\* the length the response declares exceeds a positive max_buffer_size
DeclaredOversize(c) ==
    /\ self.max_buffer_size > 0
    /\ "Content-Length" \in DOMAIN c.headers
    /\ c.headers["Content-Length"].v > self.max_buffer_size

\* C1: every call of read() that obtained a connection handle has closed it
\* exactly once when it exits, whatever the exit path.
C1_HandleClosedExactlyOnce ==
    \A t \in Threads : EndedWithHandle(t) => Handle(t).closes = 1

\* C2: read() never ends by raising; it returns the body or None.
C2_NeverRaises ==
    \A t \in Threads : Ended(t) => ret[t].kind = "return"

\* C3: success status, max_buffer_size > 0 and a declared Content-Length
\* above it: the call returns None, never read the body, and closed the
\* connection.
C3_OversizeRejected ==
    \A t \in Threads :
        (EndedWithHandle(t) /\ Handle(t).status_code = codes_ok
            /\ DeclaredOversize(Handle(t)))
        => /\ ret[t] = Return(None)
           /\ Handle(t).reads = 0
           /\ Handle(t).closes = 1

\* C4: on the success status (and a stream that does not break) the call is
\* rejected as oversize only when max_buffer_size > 0 and the declared
\* Content-Length exceeds it; in every other case the whole body is read and
\* returned.
C4_RejectedOnlyWhenDeclaredOversize ==
    \A t \in Threads :
        (EndedWithHandle(t) /\ Handle(t).status_code = codes_ok
            /\ ~Handle(t).breaks)
        => IF DeclaredOversize(Handle(t))
           THEN ret[t] = Return(None) /\ Handle(t).reads = 0
           ELSE /\ ret[t] = Return(Some(Handle(t).body))
                /\ Handle(t).bytesRead = Handle(t).body.len

\* C5: a response whose status is not 200, known reason or not, makes read()
\* return None: the returned value carries no body, reason or exception text.
C5_StatusErrorReturnsNone ==
    \A t \in Threads :
        (EndedWithHandle(t) /\ Handle(t).status_code # 200)
        => ret[t] = Return(None)

\* a call ended on a status without a known reason, after echoing the body
\* to the log
C5_Witness ==
    \E t \in Threads :
        /\ EndedWithHandle(t) /\ Handle(t).status_code = 799
        /\ ret[t] = Return(None)
        /\ \E i \in DOMAIN log[t] :
              log[t][i].what = "details" /\ log[t][i].bytes = 2048
        /\ \E i \in DOMAIN log[t] :
              log[t][i].what = "status" /\ log[t][i].text = ""

\* C6: on a status other than 200, read() takes no more than the first
\* max_error_buffer_size (2048) bytes of the body off the connection.
C6_ErrorReadBounded ==
    \A h \in Threads :
        (conn[h].live /\ conn[h].status_code # 200) => conn[h].bytesRead <= 2048

\* C7: in every call the throttle hook runs exactly once and before any
\* network I/O, and exactly one request is issued: no path retries.
C7_ThrottleOnceThenOneRequest ==
    \A t \in Threads :
        /\ throttled[t] <= 1 /\ posted[t] <= 1
        /\ (posted[t] > 0 \/ conn[t].live) => throttled[t] = 1
        /\ conn[t].live => posted[t] = 1
        /\ Ended(t) => (throttled[t] = 1 /\ posted[t] = 1)

\* a call ended on a transport failure at request issuance: one throttle,
\* one request, no handle
C7_Witness ==
    \E t \in Threads :
        /\ Ended(t) /\ r[t] = None /\ ret[t] = Return(None)
        /\ throttled[t] = 1 /\ posted[t] = 1

\* Content-Type values by the format they stand for
YamlTypes == {ct_text_yaml, ct_Text_X_YAML, ct_application_x_yaml}
TextTypes == {ct_text_plain, ct_text_html_charset}

\* C8: in a read() that stores the body, a set format override leaves the
\* default format unchanged; without override a YAML or TEXT Content-Type
\* sets the default format to that value, and any other Content-Type (or
\* none) leaves the previous default untouched.
C8_FormatResolution ==
    [][\A t \in Threads :
        (pc[t] = "content" /\ pc'[t] = "close")
        => LET h == conn[r[t][1]].headers
               typed(S) == "Content-Type" \in DOMAIN h /\ h["Content-Type"] \in S
           IN  /\ response'[t] = Some(conn[r[t][1]].body)
               /\ self'.default_config_format =
                     IF self.config_format # None
                     THEN self.default_config_format
                     ELSE IF typed(YamlTypes) THEN "yaml"
                     ELSE IF typed(TextTypes) THEN "text"
                     ELSE self.default_config_format]_vars

\* a call without override returned the body of a response typed
\* Text/X-YAML, and the default format is YAML
C8_Witness ==
    \E t \in Threads :
        /\ EndedWithHandle(t) /\ ret[t] = Return(Some(Handle(t).body))
        /\ self.config_format = None
        /\ "Content-Type" \in DOMAIN Handle(t).headers
        /\ Handle(t).headers["Content-Type"] = ct_Text_X_YAML
        /\ self.default_config_format = "yaml"

\* C9: parse_url(D.url()) reproduces D's host, port, path, header set and
\* format override, for every descriptor D.
C9_RoundTrip ==
    (parsed # None /\ urlOut # None /\ parsed[1].url = urlOut[1])
    => /\ parsed[1].results # None
       /\ LET res == parsed[1].results[1]
          IN  /\ res.host = self.host
              /\ res.port = self.port
              /\ res.fullpath = self.fullpath
              /\ res.headers = self.headers
              /\ res.format = self.config_format

\* C10: url() emits no port segment when the port is absent or equal to the
\* scheme's default (80 for http, 443 for https) and ':<port>' for any other
\* port; the scheme it emits is https exactly when secure is true.
C10_DefaultPortOmitted ==
    urlOut # None
    => LET u == urlOut[1]
           default == IF self.secure THEN 443 ELSE 80
       IN  /\ (u.schema = "https") <=> self.secure
           /\ u.schema \in {"http", "https"}
           /\ (self.port = None \/ self.port = <<default>>) => u.port = <<>>
           /\ \A p \in {<<80, "80">>, <<443, "443">>, <<8080, "8080">>} :
                 (self.port = <<p[1]>> /\ p[1] # default) => u.port = <<":", p[2]>>

\* url() was asked of a secure object on port 443 and emitted no port
C10_Witness ==
    /\ urlOut # None
    /\ self.secure /\ self.port = Some(443)
    /\ urlOut[1].port = <<>> /\ urlOut[1].schema = "https"

\* C11: parse_url() builds the header set as the minus (default) bucket
\* overlaid by the plus (override) bucket: its keys are the union of the
\* names of both buckets, and a name present in both carries the plus value.
C11_HeaderOverlay ==
    (parsed # None /\ parsed[1].results # None)
    => LET args == parsed[1].url.args
           headers == parsed[1].results[1].headers
           minus == {k[2] : k \in {x \in DOMAIN args : Len(x) = 2 /\ x[1] = "-"}}
           plus == {k[2] : k \in {x \in DOMAIN args : Len(x) = 2 /\ x[1] = "+"}}
       IN  /\ DOMAIN headers = minus \cup plus
           /\ \A h \in plus : headers[h] = args[<<"+", h>>]
           /\ \A h \in minus \ plus : headers[h] = args[<<"-", h>>]

\* a URL with defaults -X-A=1, -X-C=1 and overrides +X-A=2, +X-B=3 was
\* parsed: X-A carries the override, X-C the default, X-B the override
C11_Witness ==
    /\ parsed # None /\ parsed[1].results # None
    /\ <<"-", "X-A">> \in DOMAIN parsed[1].url.args
    /\ <<"+", "X-A">> \in DOMAIN parsed[1].url.args
    /\ parsed[1].url.args[<<"-", "X-A">>] = "1"
    /\ DOMAIN parsed[1].results[1].headers = {"X-A", "X-B", "X-C"}
    /\ parsed[1].results[1].headers["X-A"] = "2"
    /\ parsed[1].results[1].headers["X-B"] = "3"
    /\ parsed[1].results[1].headers["X-C"] = "1"

\* the call of thread t met a transport failure: its handler logged the
\* connection warning
TransportFailed(t) ==
    \E i \in DOMAIN log[t] : log[t][i].what = "connection"

\* C12: a transport failure ends read() with None; when it struck before a
\* handle existed nothing is released, and when it struck after the handle
\* existed (during the body read) the handle has been released before the
\* failure is returned.
C12_TransportFailureReleases ==
    \A t \in Threads :
        (Ended(t) /\ TransportFailed(t))
        => /\ ret[t] = Return(None)
           /\ r[t] = None => (~conn[t].live /\ conn[t].closes = 0)
           /\ r[t] # None => Handle(t).closes = 1

\* C13: when several read() calls run concurrently, under every interleaving
\* each call holds, reads from and closes only the handle it opened itself,
\* and no handle is closed by another call or more than once.
C13_OwnHandleOnly ==
    /\ [](\A t \in Threads :
            /\ r[t] # None => (Handle(t).live /\ Handle(t).owner = t)
            /\ conn[t].closes <= 1)
    /\ [][\A t, h \in Threads :
            (/\ pc'[t] # pc[t]
             /\ conn[h].live /\ conn'[h].live
             /\ \/ conn'[h].closes # conn[h].closes
                \/ conn'[h].reads # conn[h].reads)
            => conn[h].owner = t]_vars

\* two calls are in flight at once: one has closed its handle while the
\* other has read its body and still holds its handle open
C13_Witness ==
    \E t, u \in Threads :
        /\ t # u
        /\ conn[t].live /\ conn[t].owner = t /\ conn[t].closes = 1
        /\ conn[u].live /\ conn[u].owner = u
        /\ pc[u] = "close" /\ conn[u].reads = 1 /\ conn[u].closes = 0

\* C14: the classifier returns YAML for a value that matches
\* (text|application)/(x-)?yaml, otherwise TEXT for a value that matches
\* text/(plain|html), otherwise no match; case is ignored, YAML is tested
\* first, and no value is both.
C14_Classifier ==
    (classified # None /\ classified[1].classified)
    => LET c == classified[1]
           texts == {<<"t", "e", "x", "t">>, <<"T", "E", "X", "T">>,
                     <<"T", "e", "x", "t">>}
           applications ==
               {<<"a", "p", "p", "l", "i", "c", "a", "t", "i", "o", "n">>,
                <<"A", "p", "p", "l", "i", "c", "a", "t", "i", "o", "n">>}
           yamls == {<<"y", "a", "m", "l">>, <<"Y", "A", "M", "L">>,
                     <<"Y", "a", "m", "l">>, <<"x", "-", "y", "a", "m", "l">>,
                     <<"X", "-", "Y", "A", "M", "L">>}
           plains == {<<"p", "l", "a", "i", "n">>, <<"P", "L", "A", "I", "N">>,
                      <<"h", "t", "m", "l">>, <<"H", "t", "m", "l">>}
           atStart == c.lead = <<>> /\ c.sep = <<"/">>
           isYaml == atStart /\ c.type \in texts \cup applications /\ c.sub \in yamls
           isText == atStart /\ c.type \in texts /\ c.sub \in plains
       IN  /\ ~(isYaml /\ isText)
           /\ c.format = IF isYaml THEN <<"yaml">>
                         ELSE IF isText THEN <<"text">>
                         ELSE <<>>

\* the value Application/X-YAML; was classified as YAML
C14_Witness ==
    /\ classified # None /\ classified[1].classified
    /\ classified[1].value =
          <<"A", "p", "p", "l", "i", "c", "a", "t", "i", "o", "n", "/",
            "X", "-", "Y", "A", "M", "L", ";">>
    /\ classified[1].format = <<"yaml">>

\* the step ends thread t's call in failure: None is returned or an error
\* is raised
FailsNow(t) ==
    /\ pc[t] # "done" /\ pc'[t] = "done"
    /\ ret'[t].kind = "raise" \/ ret'[t].value = None

\* C15: a read() call that ends in failure leaves the object's default
\* format and every descriptor field unchanged; the default format, and
\* nothing else of the object, changes only in a call that returns the body.
C15_FailureLeavesObject ==
    [][/\ self' # self
          => /\ \E t \in Threads : pc[t] = "content" /\ pc'[t] = "close"
             /\ self' = [self EXCEPT !.default_config_format =
                                        self'.default_config_format]
       /\ \A t \in Threads :
             /\ FailsNow(t) => (self' = self /\ pc[t] # "close")
             /\ (pc[t] = "close" /\ pc'[t] # "close")
                => /\ pc'[t] = "done"
                   /\ ret'[t] = Return(Some(conn[r[t][1]].body))]_vars

\* a call without format override failed while reading the body of a 200
\* response typed text/yaml, and the default format is still TEXT
C15_Witness ==
    \E t \in Threads :
        /\ EndedWithHandle(t) /\ ret[t] = Return(None)
        /\ Handle(t).status_code = 200 /\ Handle(t).breaks /\ Handle(t).reads = 1
        /\ "Content-Type" \in DOMAIN Handle(t).headers
        /\ Handle(t).headers["Content-Type"] = ct_text_yaml
        /\ self.config_format = None
        /\ self.default_config_format = "text"

\* C16: within a read() call the handle is never read from after it was
\* closed: every body read (error echo or full body) comes before the close,
\* and once the handle is closed nothing more is read from it.
C16_NoReadAfterClose ==
    /\ [](\A h \in Threads : ~conn[h].readAfterClose)
    /\ [][\A h \in Threads :
            (conn[h].live /\ conn[h].closes > 0 /\ conn'[h].live)
            => /\ conn'[h].reads = conn[h].reads
               /\ conn'[h].bytesRead = conn[h].bytesRead]_vars

\* a call on a 404 response echoed the body, then closed the handle, and
\* has returned
C16_Witness ==
    \E t \in Threads :
        /\ EndedWithHandle(t) /\ Handle(t).status_code = 404
        /\ Handle(t).reads = 1 /\ Handle(t).bytesRead = 5000
        /\ Handle(t).closes = 1 /\ ~Handle(t).readAfterClose

====
